---- MODULE Spec2Model ----
(***************************************************************************)
(* The task tracker of src/src/App.tsx (the date-based variant, "v1") and  *)
(* of src/unnamed/part_000 (the variant with a today state, parent edits,  *)
(* project status and completion cascades, "v2").                          *)
(*                                                                         *)
(* The local cache is the pair of React states tasks/projects; the remote  *)
(* store is the pair of Firestore collections.  Every handler is cut at    *)
(* its awaits: the part up to the first await is one action, and each      *)
(* resolution of an awaited remote call, with the continuation it wakes,   *)
(* is one action.  A continuation reads the tasks/projects its handler     *)
(* closed over when it was invoked, which the handler record keeps.        *)
(***************************************************************************)
EXTENDS Integers, Sequences, FiniteSets, TLC

\* ---- bounds of the model ------------------------------------------------
MaxOps == 2        \* handler invocations by the user
MaxClock == 2      \* the clock runs 1..MaxClock
TicksPerDay == 2   \* clock ticks in one calendar day

\* JavaScript null, for the string-or-null fields of the cache
NULL == "null"

\* ---- small helpers --------------------------------------------------------
Range(s) == {s[i] : i \in 1..Len(s)}

Ids(s) == {s[i].id : i \in 1..Len(s)}

\* the position of x in the sorted prefix s: behind every element whose order
\* is not larger, so equal orders keep their input order
RECURSIVE InsertByOrderUnstable(_, _)
InsertByOrderUnstable(s, x) ==
  IF s = <<>> THEN <<x>>
  ELSE IF x.order <= Head(s).order THEN <<x>> \o s
       ELSE <<Head(s)>> \o InsertByOrderUnstable(Tail(s), x)

RECURSIVE InsertByOrder(_, _)
InsertByOrder(s, x) ==
  IF s = <<>> THEN <<x>>
  ELSE IF x.order < Head(s).order THEN <<x>> \o s
       ELSE <<Head(s)>> \o InsertByOrder(Tail(s), x)

\* Array.prototype.sort((a, b) => a.order - b.order): ascending and stable
RECURSIVE SortByOrder(_)
SortByOrder(s) ==
  IF s = <<>> THEN <<>>
  ELSE InsertByOrder(SortByOrder(SubSeq(s, 1, Len(s) - 1)), s[Len(s)])

\* String.prototype.trim on a text given as a sequence of characters
RECURSIVE TrimLeft(_)
TrimLeft(s) ==
  IF s # <<>> /\ Head(s) = " " THEN TrimLeft(Tail(s)) ELSE s

RECURSIVE TrimRight(_)
TrimRight(s) ==
  IF s # <<>> /\ s[Len(s)] = " " THEN TrimRight(SubSeq(s, 1, Len(s) - 1)) ELSE s

Trim(s) == TrimRight(TrimLeft(s))

\* ---- time -----------------------------------------------------------------
\* new Date().toISOString() at clock c: the calendar date, then the time of day
DateOf(c) == "D" \o ToString(c \div TicksPerDay)

IsoOf(c) == DateOf(c) \o "T" \o ToString(c % TicksPerDay)

\* ---- stored (raw) values ----------------------------------------------------
\* A field of a stored record is null, a string, a number or a Firestore
\* timestamp (an object with toDate); a field may also be missing.
Nul == [t |-> "null"]
Str(s) == [t |-> "string", v |-> s]
Num(n) == [t |-> "number", v |-> n]
Ts(c) == [t |-> "timestamp", v |-> c]

\* a stored map (a plain object when read back), with or without a key 'toDate';
\* the store holds no functions, so the value under that key is not callable
MapVal(hasToDate) == [t |-> "map", toDate |-> hasToDate]

\* the TypeError of calling a toDate that is not a function
Raised == "TypeError"

\* a cache value (string or null) as a stored value
Raw(v) == IF v = NULL THEN Nul ELSE Str(v)

Has(data, f) == f \in DOMAIN data /\ data[f].t # "null"

\* data.f ?? dflt, for a string field
StrOr(data, f, dflt) == IF Has(data, f) THEN data[f].v ELSE dflt

toIsoString(data, f) ==
  IF ~Has(data, f) THEN NULL
  ELSE IF data[f].t = "string" THEN (IF data[f].v = "" THEN NULL ELSE data[f].v)
  ELSE IF data[f].t = "timestamp" THEN IsoOf(data[f].v)
  ELSE IF data[f].t = "map" /\ data[f].toDate THEN Raised
  ELSE NULL

IsoOr(data, f, dflt) ==
  IF toIsoString(data, f) = NULL THEN dflt ELSE toIsoString(data, f)

OrderOf(data) ==
  IF "order" \in DOMAIN data /\ data.order.t = "number" THEN data.order.v ELSE 0

Untitled == <<"U", "n", "t", "i", "t", "l", "e", "d">>

mapTaskDoc(id, data, clock) ==
  [id |-> id,
   text |-> IF Has(data, "text") THEN data.text.v ELSE <<>>,
   projectId |-> StrOr(data, "projectId", NULL),
   parentId |-> StrOr(data, "parentId", NULL),
   state |-> StrOr(data, "state", "inbox"),
   createdAt |-> IsoOr(data, "createdAt", IsoOf(clock)),
   updatedAt |-> IsoOr(data, "updatedAt", IsoOf(clock)),
   dueAt |-> toIsoString(data, "dueAt"),
   scheduledAt |-> toIsoString(data, "scheduledAt"),
   doneAt |-> toIsoString(data, "doneAt"),
   order |-> OrderOf(data)]

\* the call of the mapper ends in the exception instead of returning the record
TemporalFields == {"createdAt", "updatedAt", "dueAt", "scheduledAt", "doneAt"}

Raises(mapped) == \E f \in DOMAIN mapped \cap TemporalFields : mapped[f] = Raised

mapProjectDocV1(id, data, clock) ==
  [id |-> id,
   name |-> StrOr(data, "name", Untitled),
   order |-> OrderOf(data),
   createdAt |-> IsoOr(data, "createdAt", IsoOf(clock))]

mapProjectDocV2(id, data, clock) ==
  [id |-> id,
   name |-> StrOr(data, "name", Untitled),
   state |-> StrOr(data, "state", "active"),
   order |-> OrderOf(data),
   createdAt |-> IsoOr(data, "createdAt", IsoOf(clock))]

\* ---- fixed data ------------------------------------------------------------
TaskStatesV1 ==
  <<"inbox", "next", "scheduled", "waiting", "someday", "done", "cancelled">>

TaskStatesV2 == <<"inbox", "today", "active", "done">>

\* free text (the text of a task, the name of a project) is a sequence of
\* characters
SomeText == <<"a">>


Task(id, projectId, parentId, state, scheduledAt, order) ==
  [id |-> id, text |-> SomeText, projectId |-> projectId, parentId |-> parentId,
   state |-> state, createdAt |-> IsoOf(1), updatedAt |-> IsoOf(1),
   dueAt |-> NULL, scheduledAt |-> scheduledAt, doneAt |-> NULL, order |-> order]

\* the seeds are built when the module is loaded, at clock 1
seedProjectsV1 ==
  <<[id |-> "p-home", name |-> <<"H">>, order |-> 10, createdAt |-> IsoOf(1)],
    [id |-> "p-work", name |-> <<"W">>, order |-> 20, createdAt |-> IsoOf(1)]>>

seedProjectsV2 ==
  <<[id |-> "p-home", name |-> <<"H">>, state |-> "active", order |-> 10,
     createdAt |-> IsoOf(1)],
    [id |-> "p-work", name |-> <<"W">>, state |-> "active", order |-> 20,
     createdAt |-> IsoOf(1)]>>

seedTasksV1 ==
  <<Task("t-1", NULL, NULL, "inbox", NULL, 10),
    Task("t-2", "p-home", NULL, "next", DateOf(1), 20),
    Task("t-3", "p-work", NULL, "scheduled", DateOf(1), 10),
    Task("t-4", "p-work", "t-3", "next", NULL, 10)>>

seedTasksV2 ==
  <<Task("t-1", NULL, NULL, "inbox", NULL, 10),
    Task("t-2", "p-home", NULL, "active", DateOf(1), 20),
    Task("t-3", "p-work", NULL, "active", DateOf(1), 10),
    Task("t-4", "p-work", "t-3", "active", NULL, 10)>>

\* A stored task and a stored project, as the application writes them
StoredTask(id, projectId, parentId, state, scheduledAt, doneAt, order) ==
  [id |-> id,
   data |-> [text |-> Str(SomeText), projectId |-> Raw(projectId),
             parentId |-> Raw(parentId), state |-> Str(state),
             createdAt |-> Ts(1), updatedAt |-> Ts(1), dueAt |-> Nul,
             scheduledAt |-> Raw(scheduledAt), doneAt |-> doneAt,
             order |-> Num(order)]]

StoredProject(id, name, order) ==
  [id |-> id,
   data |-> [name |-> Str(name), state |-> Str("active"), order |-> Num(order),
             createdAt |-> Ts(1)]]

\* A store another session of the application has filled: project pa holds the
\* chain a1 > a2 > a3 and the finished root a4; pb is empty.
StoredProjects == <<StoredProject("pa", <<"A">>, 10), StoredProject("pb", <<"B">>, 20)>>

StoredTasksV1 ==
  <<StoredTask("a1", "pa", NULL, "next", DateOf(1), Nul, 10),
    StoredTask("a2", "pa", "a1", "scheduled", DateOf(1), Nul, 10),
    StoredTask("a3", "pa", "a2", "waiting", NULL, Nul, 30),
    StoredTask("a4", "pa", NULL, "done", NULL, Ts(1), 10)>>

StoredTasksV2 ==
  <<StoredTask("a1", "pa", NULL, "active", NULL, Nul, 10),
    StoredTask("a2", "pa", "a1", "today", NULL, Nul, 10),
    StoredTask("a3", "pa", "a2", "active", NULL, Nul, 30),
    StoredTask("a4", "pa", NULL, "done", NULL, Ts(1), 10)>>

\* a stored task whose doneAt is a map with a key 'toDate'
StoredTasksBad == <<StoredTask("a5", "pa", NULL, "inbox", NULL, MapVal(TRUE), 10)>>

\* what the user may type into the quick-add box
QuickTexts == {<<>>, <<" ", " ">>, <<" ", "b">>}

\* ---- state ------------------------------------------------------------------
VARIABLES
  version,            \* "v1": src/src/App.tsx, "v2": src/unnamed/part_000
  tasks,              \* useState<Task[]>
  projects,           \* useState<Project[]>
  selectedProjectId,  \* useState<string | null>
  todayMemo,          \* the date todayTasks was last computed with (v1)
  now,                \* the wall clock
  remoteTasks,        \* the stored tasks collection
  remoteProjects,     \* the stored projects collection
  reqs,               \* remote calls in flight
  handlers,           \* handlers suspended at an await
  nops,               \* handler invocations so far
  ev                  \* the step just taken

vars == <<version, tasks, projects, selectedProjectId, todayMemo, now,
          remoteTasks, remoteProjects, reqs, handlers, nops, ev>>

taskStates == IF version = "v1" THEN TaskStatesV1 ELSE TaskStatesV2

seedProjects == IF version = "v1" THEN seedProjectsV1 ELSE seedProjectsV2

seedTasks == IF version = "v1" THEN seedTasksV1 ELSE seedTasksV2

mapProjectDoc(id, data, clock) ==
  IF version = "v1" THEN mapProjectDocV1(id, data, clock)
  ELSE mapProjectDocV2(id, data, clock)

nowIso == IsoOf(now)

todayString == DateOf(now)

\* ---- the remote store ---------------------------------------------------------
\* query(collection, orderBy('order')): the documents that have the field, in
\* ascending order; documents of equal order come in the order of the collection
OrderedQuery(coll) ==
  LET having == SelectSeq(coll, LAMBDA d : "order" \in DOMAIN d.data
                                           /\ d.data.order.t = "number")
      keyed == [i \in 1..Len(having) |->
                  [order |-> having[i].data.order.v, doc |-> having[i]]]
      sorted == SortByOrder(keyed)
  IN [i \in 1..Len(sorted) |-> sorted[i].doc]

\* where('state', 'in', taskStates)
TaskQuery(coll) ==
  OrderedQuery(SelectSeq(coll, LAMBDA d : "state" \in DOMAIN d.data
                                          /\ d.data.state.t = "string"
                                          /\ d.data.state.v \in Range(taskStates)))

\* updateDoc: the named fields of the document are overwritten
Merge(data, upd) ==
  [f \in DOMAIN data \cup DOMAIN upd |->
     IF f \in DOMAIN upd THEN upd[f] ELSE data[f]]

UpdateDoc(coll, id, upd) ==
  [i \in 1..Len(coll) |->
     IF coll[i].id = id THEN [coll[i] EXCEPT !.data = Merge(coll[i].data, upd)]
     ELSE coll[i]]

\* serverTimestamp() fields are filled in by the server when it applies a write
Stamp(upd, clock) ==
  [f \in DOMAIN upd |-> IF upd[f].t = "serverTimestamp" THEN Ts(clock) ELSE upd[f]]

serverTimestamp == [t |-> "serverTimestamp"]

\* ---- view derivation -----------------------------------------------------------
\* the filter taken for "not finished"
inboxTasksOfOpen(list) == SortByOrder(SelectSeq(list, LAMBDA t : t.state # "done"))

inboxTasksOf(list) == SortByOrder(SelectSeq(list, LAMBDA t : t.state = "inbox"))

inboxTasks == inboxTasksOf(tasks)

\* v1: useMemo(..., [tasks]) reads the date when the task list changes
todayTasksV1(list, today) ==
  SortByOrder(SelectSeq(list, LAMBDA t : t.scheduledAt = today /\ t.state # "done"))

todayTasksV2(list) == SortByOrder(SelectSeq(list, LAMBDA t : t.state = "today"))

todayTasks ==
  IF version = "v1" THEN todayTasksV1(tasks, todayMemo) ELSE todayTasksV2(tasks)

\* the filter that also lets through the tasks without a project
projectTasksOfLoose(list, selected) ==
  IF selected = NULL \/ selected = "" THEN <<>>
  ELSE SortByOrder(SelectSeq(list, LAMBDA t : t.projectId = selected
                                              \/ t.projectId = NULL))

projectTasksOf(list, selected) ==
  IF selected = NULL \/ selected = "" THEN <<>>
  ELSE SortByOrder(SelectSeq(list, LAMBDA t : t.projectId = selected))

projectTasks == projectTasksOf(tasks, selectedProjectId)

\* ---- descendants ------------------------------------------------------------------
RECURSIVE Concat(_)
Concat(lists) ==
  IF lists = <<>> THEN <<>> ELSE Head(lists) \o Concat(Tail(lists))

\* getDescendantTasks, with the depth of the call stack: in a list without a
\* parent cycle no call is nested deeper than the list is long, so a call that
\* runs out of fuel stands for the recursion that never returns (the engine
\* ends it with a RangeError).
RECURSIVE Descend(_, _, _)
Descend(taskId, allTasks, fuel) ==
  IF fuel = 0 THEN [overflow |-> TRUE, list |-> <<>>]
  ELSE LET children == SelectSeq(allTasks, LAMBDA t : t.parentId = taskId)
           subs == [i \in 1..Len(children) |->
                      Descend(children[i].id, allTasks, fuel - 1)]
       IN [overflow |-> \E i \in 1..Len(children) : subs[i].overflow,
           list |-> children \o Concat([i \in 1..Len(children) |-> subs[i].list])]

\* the children only, without the recursive call
getDescendantTasksShallow(taskId, allTasks) ==
  [overflow |-> FALSE,
   list |-> SelectSeq(allTasks, LAMBDA t : t.parentId = taskId)]

getDescendantTasks(taskId, allTasks) ==
  Descend(taskId, allTasks, Len(allTasks) + 1)

\* ---- trees ------------------------------------------------------------------------
\* A forest is a sequence of nodes [task, children]; v2 renders the nodes that
\* are not done before the nodes that are done.
RECURSIVE renderProjectTreeV1(_, _)
renderProjectTreeV1(list, parentId) ==
  LET nodes == SortByOrder(SelectSeq(list, LAMBDA t : t.parentId = parentId))
  IN [i \in 1..Len(nodes) |->
        [task |-> nodes[i], children |-> renderProjectTreeV1(list, nodes[i].id)]]

\* the tree with all the children of a level in one list, done or not
RECURSIVE renderProjectTreeMixed(_, _)
renderProjectTreeMixed(list, parentId) ==
  LET allNodes == SortByOrder(SelectSeq(list, LAMBDA t : t.parentId = parentId))
      Node(t) == [task |-> t, children |-> renderProjectTreeMixed(list, t.id)]
  IN [active |-> [i \in 1..Len(allNodes) |-> Node(allNodes[i])],
      done |-> <<>>]

RECURSIVE renderProjectTreeV2(_, _)
renderProjectTreeV2(list, parentId) ==
  LET allNodes == SortByOrder(SelectSeq(list, LAMBDA t : t.parentId = parentId))
      activeNodes == SelectSeq(allNodes, LAMBDA t : t.state # "done")
      doneNodes == SelectSeq(allNodes, LAMBDA t : t.state = "done")
      Node(t) == [task |-> t, children |-> renderProjectTreeV2(list, t.id)]
  IN [active |-> [i \in 1..Len(activeNodes) |-> Node(activeNodes[i])],
      done |-> [i \in 1..Len(doneNodes) |-> Node(doneNodes[i])]]

RECURSIVE renderTodayTree(_, _, _)
renderTodayTree(list, projectId, parentId) ==
  LET nodes == SortByOrder(SelectSeq(list, LAMBDA t : t.projectId = projectId
                                                      /\ t.parentId = parentId))
  IN [i \in 1..Len(nodes) |->
        [task |-> nodes[i],
         children |-> renderTodayTree(list, projectId, nodes[i].id)]]

\* the ids a forest shows
RECURSIVE ForestIds(_)
ForestIds(forest) ==
  UNION {{forest[i].task.id} \cup ForestIds(forest[i].children) :
           i \in 1..Len(forest)}

RECURSIVE ForestIdsV2(_)
ForestIdsV2(forest) ==
  UNION {{n.task.id} \cup ForestIdsV2(n.children) :
           n \in Range(forest.active) \cup Range(forest.done)}

\* the ids of the rows a forest renders, in the order of the markup
RECURSIVE ForestRows(_)
ForestRows(forest) ==
  Concat([i \in 1..Len(forest) |->
            <<forest[i].task.id>> \o ForestRows(forest[i].children)])

RECURSIVE ForestRowsV2(_)
ForestRowsV2(forest) ==
  LET nodes == forest.active \o forest.done
  IN Concat([i \in 1..Len(nodes) |->
               <<nodes[i].task.id>> \o ForestRowsV2(nodes[i].children)])

\* the rows of one level in the order of the markup: the list of the active
\* nodes, then the list of the completed ones
LevelRows(forest) ==
  [i \in 1..Len(forest.active) |-> forest.active[i].task]
  \o [i \in 1..Len(forest.done) |-> forest.done[i].task]

\* Array.from(new Set(list.map((task) => task.projectId))): the project ids of
\* the list, each once, in the order of their first task
RECURSIVE DistinctProjectIds(_)
DistinctProjectIds(list) ==
  IF list = <<>> THEN <<>>
  ELSE LET front == DistinctProjectIds(SubSeq(list, 1, Len(list) - 1))
           last == list[Len(list)].projectId
       IN IF last \in Range(front) THEN front ELSE Append(front, last)

\* the groups of the Today panel (v2): one per project id of todayTasks, with
\* the rows of renderTodayTree(projectId || '', null)
TodayGroups(today) ==
  LET projectIds == DistinctProjectIds(today)
  IN [i \in 1..Len(projectIds) |->
        [projectId |-> projectIds[i],
         rows |-> ForestRows(renderTodayTree(
                    today, IF projectIds[i] = NULL THEN "" ELSE projectIds[i], NULL))]]

\* ---- what the views offer -----------------------------------------------------------
\* The views change no data and the user moves between them freely, so the
\* model keeps no current view: a control is offered when some view shows it.
InboxShown == {t.id : t \in Range(inboxTasks)}

\* v2 groups the Today view by project and renders renderTodayTree(projectId || '', null)
TodayShown ==
  IF version = "v1" THEN {t.id : t \in Range(todayTasks)}
  ELSE UNION {ForestIds(renderTodayTree(todayTasks,
                                        IF t.projectId = NULL THEN "" ELSE t.projectId,
                                        NULL)) : t \in Range(todayTasks)}

ProjectShown ==
  IF selectedProjectId = NULL \/ projectTasks = <<>> THEN {}
  ELSE IF version = "v1" THEN ForestIds(renderProjectTreeV1(projectTasks, NULL))
  ELSE ForestIdsV2(renderProjectTreeV2(projectTasks, NULL))

\* the tasks with a State select (or a Today / done button)
StateControls == InboxShown \cup TodayShown \cup ProjectShown

\* ---- initial state ------------------------------------------------------------------
\* ev names the handler or the resolution that ran in the last step, with its
\* arguments: op, the handler's number h, the id, the patched field and value,
\* the text typed, whether window.confirm was asked and what it answered, and
\* whether the handler ended in an exception.  failed is carried from step to
\* step: whether a remote write has been rejected so far.
Ev(op, h, id, field, val) ==
  [op |-> op, h |-> h, id |-> id, field |-> field, val |-> val, text |-> <<>>,
   asked |-> FALSE, confirmed |-> FALSE, threw |-> FALSE, failed |-> ev.failed]

Asked(e, answer) == [e EXCEPT !.asked = TRUE, !.confirmed = answer]

Threw(e) == [e EXCEPT !.threw = TRUE]

NoEv ==
  [op |-> "init", h |-> 0, id |-> NULL, field |-> NULL, val |-> NULL, text |-> <<>>,
   asked |-> FALSE, confirmed |-> FALSE, threw |-> FALSE, failed |-> FALSE]

\* the remote calls that write
Writes == {"addTask", "updTask", "addProject", "updProject"}

\* a handler suspended at an await, with what it closed over
Handler(h, kind, pc) ==
  [h |-> h, kind |-> kind, pc |-> pc, text |-> <<>>, order |-> 0, id |-> NULL,
   newState |-> NULL, projects |-> <<>>, left |-> 0, confirmed |-> FALSE,
   gotProjects |-> FALSE, gotTasks |-> FALSE, snapProjects |-> <<>>,
   snapTasks |-> <<>>]

Req(h, kind, id, data) == [h |-> h, kind |-> kind, id |-> id, data |-> data]

NoData == [none |-> Nul]

Init ==
  /\ version \in {"v1", "v2"}
  /\ tasks = <<>>
  /\ projects = <<>>
  /\ selectedProjectId = NULL
  /\ now = 1
  /\ todayMemo = DateOf(1)
  \* each collection is empty or filled; or the tasks hold a malformed record
  /\ remoteTasks \in {<<>>, IF version = "v1" THEN StoredTasksV1 ELSE StoredTasksV2,
                      StoredTasksBad}
  /\ remoteProjects \in {<<>>, StoredProjects}
  /\ remoteTasks = StoredTasksBad => remoteProjects = StoredProjects
  \* loadData has been called: both fetches are in flight
  /\ reqs = {Req(0, "getProjects", NULL, NoData), Req(0, "getTasks", NULL, NoData)}
  /\ handlers = {Handler(0, "loadData", "fetch")}
  /\ nops = 0
  /\ ev = NoEv

\* ---- steps shared by the handlers -------------------------------------------------------
\* useEffect: with no project selected and projects present, select the first
AutoSelect(selected, projs) ==
  IF selected = NULL /\ projs # <<>> THEN projs[1].id ELSE selected

HandlerOf(h) == {x \in handlers : x.h = h}

MaxOf(S) == CHOOSE m \in S : \A n \in S : n <= m

Tick ==
  /\ now < MaxClock
  /\ now' = now + 1
  /\ ev' = Ev("tick", 0, NULL, NULL, NULL)
  /\ UNCHANGED <<version, tasks, projects, selectedProjectId, todayMemo,
                 remoteTasks, remoteProjects, reqs, handlers, nops>>

\* a project card (v2) or the project select (v1)
SelectProject(p) ==
  /\ nops < MaxOps
  /\ p \in Ids(projects)
  /\ p # selectedProjectId
  /\ nops' = nops + 1
  /\ selectedProjectId' = p
  /\ ev' = Ev("selectProject", nops + 1, p, NULL, NULL)
  /\ UNCHANGED <<version, tasks, projects, todayMemo, now, remoteTasks,
                 remoteProjects, reqs, handlers>>

\* a failed call that is sent again
RemoteFailRetried(r) ==
  /\ r \in reqs
  /\ reqs' = reqs
  /\ handlers' = handlers
  /\ ev' = [Ev("remoteFail", r.h, r.id, r.kind, NULL) EXCEPT
              !.failed = @ \/ r.kind \in Writes]
  /\ UNCHANGED <<version, tasks, projects, selectedProjectId, todayMemo, now,
                 remoteTasks, remoteProjects, nops>>

\* a remote call fails: its promise rejects, and so does the handler awaiting it
RemoteFail(r) ==
  /\ r \in reqs
  /\ reqs' = reqs \ {r}
  /\ handlers' = handlers \ HandlerOf(r.h)
  /\ ev' = [Ev("remoteFail", r.h, r.id, r.kind, NULL) EXCEPT
              !.failed = @ \/ r.kind \in Writes]
  /\ UNCHANGED <<version, tasks, projects, selectedProjectId, todayMemo, now,
                 remoteTasks, remoteProjects, nops>>

\* ---- loadData --------------------------------------------------------------------------
MappedProjects(docs) ==
  [i \in 1..Len(docs) |-> mapProjectDoc(docs[i].id, docs[i].data, now)]

MappedTasks(docs) ==
  [i \in 1..Len(docs) |-> mapTaskDoc(docs[i].id, docs[i].data, now)]

\* the continuation of Promise.all([getDocs(projectQuery), getDocs(taskQuery)])
\* an exception of a mapper ends loadData before it sets anything
LoadDone(projectDocs, taskDocs, e) ==
  LET nextProjects == MappedProjects(projectDocs)
      nextTasks == MappedTasks(taskDocs)
  IN IF \E m \in Range(nextProjects) \cup Range(nextTasks) : Raises(m)
     THEN /\ ev' = Threw(e)
          /\ UNCHANGED <<tasks, projects, selectedProjectId, todayMemo>>
     ELSE /\ ev' = e
          /\ projects' = (IF nextProjects # <<>> THEN nextProjects ELSE seedProjects)
          /\ tasks' = (IF nextTasks # <<>> THEN nextTasks ELSE seedTasks)
          /\ selectedProjectId' = AutoSelect(selectedProjectId, projects')
          /\ todayMemo' = todayString

\* getDocs(taskQuery) resolves
GetTasksOk(r) ==
  /\ r \in reqs /\ r.kind = "getTasks"
  /\ reqs' = reqs \ {r}
  /\ LET snap == TaskQuery(remoteTasks)
         e == Ev("getTasksOk", r.h, NULL, NULL, NULL)
     IN
       IF \E x \in handlers : x.h = r.h /\ x.gotProjects
       THEN /\ LoadDone((CHOOSE x \in handlers : x.h = r.h).snapProjects, snap, e)
            /\ handlers' = handlers \ HandlerOf(r.h)
       ELSE /\ ev' = e
            /\ handlers' = {IF x.h = r.h
                            THEN [x EXCEPT !.gotTasks = TRUE, !.snapTasks = snap]
                            ELSE x : x \in handlers}
            /\ UNCHANGED <<tasks, projects, selectedProjectId, todayMemo>>
  /\ UNCHANGED <<version, now, remoteTasks, remoteProjects, nops>>

\* getDocs(projectQuery) resolves, for loadData or for the new-project form
GetProjectsOk(r) ==
  /\ r \in reqs /\ r.kind = "getProjects"
  /\ reqs' = reqs \ {r}
  /\ LET snap == OrderedQuery(remoteProjects)
         e == Ev("getProjectsOk", r.h, NULL, NULL, NULL)
     IN
       IF \E x \in handlers : x.h = r.h /\ x.kind = "loadData" /\ x.gotTasks
       THEN /\ LoadDone(snap, (CHOOSE x \in handlers : x.h = r.h).snapTasks, e)
            /\ handlers' = handlers \ HandlerOf(r.h)
       ELSE IF \E x \in handlers : x.h = r.h /\ x.kind = "newProject"
       THEN /\ handlers' = handlers \ HandlerOf(r.h)
            /\ IF \E m \in Range(MappedProjects(snap)) : Raises(m)
               THEN /\ ev' = Threw(e)
                    /\ UNCHANGED <<tasks, projects, selectedProjectId, todayMemo>>
               ELSE /\ ev' = e
                    /\ projects' = MappedProjects(snap)
                    /\ selectedProjectId' = AutoSelect(selectedProjectId, projects')
                    /\ UNCHANGED <<tasks, todayMemo>>
       ELSE /\ ev' = e
            /\ handlers' = {IF x.h = r.h
                            THEN [x EXCEPT !.gotProjects = TRUE,
                                           !.snapProjects = snap]
                            ELSE x : x \in handlers}
            /\ UNCHANGED <<tasks, projects, selectedProjectId, todayMemo>>
  /\ UNCHANGED <<version, now, remoteTasks, remoteProjects, nops>>

\* ---- addQuickTask ------------------------------------------------------------------------
RootOrders(list) == {t.order : t \in {u \in Range(list) : u.parentId = NULL}}

\* the largest order of all tasks, subtasks included
NextOrderAll(list) ==
  (IF list # <<>> THEN MaxOf({t.order : t \in Range(list)}) ELSE 0) + 10

NextOrder(list) ==
  (IF RootOrders(list) # {} THEN MaxOf(RootOrders(list)) ELSE 0) + 10

\* addDoc draws the id of the new document when it is called
NewId(h) == "n" \o ToString(h)

QuickTaskData(trimmed, order) ==
  [text |-> Str(trimmed), projectId |-> Str("p-default"), parentId |-> Nul,
   state |-> Str("inbox"), createdAt |-> serverTimestamp,
   updatedAt |-> serverTimestamp, dueAt |-> Nul, scheduledAt |-> Nul,
   doneAt |-> Nul, order |-> Num(order)]

\* addQuickTask up to its await
addQuickTask(quickText) ==
  LET h == nops + 1
      trimmed == Trim(quickText)
      nextOrder == NextOrder(tasks)
  IN /\ nops < MaxOps
     /\ nops' = h
     /\ ev' = [Ev("addQuickTask", h, NULL, NULL, NULL) EXCEPT !.text = quickText]
     /\ IF trimmed = <<>>
        THEN UNCHANGED <<reqs, handlers>>
        ELSE /\ reqs' = reqs \cup
                  {Req(h, "addTask", NewId(h), QuickTaskData(trimmed, nextOrder))}
             /\ handlers' = handlers \cup
                  {[Handler(h, "addQuickTask", "addDoc") EXCEPT
                      !.text = trimmed, !.order = nextOrder, !.id = NewId(h)]}
     /\ UNCHANGED <<version, tasks, projects, selectedProjectId, todayMemo, now,
                    remoteTasks, remoteProjects>>

NewTask(x) ==
  [id |-> x.id, text |-> x.text, projectId |-> "p-default", parentId |-> NULL,
   state |-> "inbox", createdAt |-> nowIso, updatedAt |-> nowIso, dueAt |-> NULL,
   scheduledAt |-> NULL, doneAt |-> NULL, order |-> x.order]

\* addDoc resolves: the rest of addQuickTask
AddTaskOk(r) ==
  /\ r \in reqs /\ r.kind = "addTask"
  /\ reqs' = reqs \ {r}
  /\ remoteTasks' = Append(remoteTasks, [id |-> r.id, data |-> Stamp(r.data, now)])
  /\ tasks' = Append(tasks, NewTask(CHOOSE x \in handlers : x.h = r.h))
  /\ todayMemo' = todayString
  /\ handlers' = handlers \ HandlerOf(r.h)
  /\ ev' = Ev("addTaskOk", r.h, r.id, NULL, NULL)
  /\ UNCHANGED <<version, projects, selectedProjectId, now, remoteProjects, nops>>

\* ---- updateTask ---------------------------------------------------------------------------
\* A patch sets one field: {state}, {projectId}, {parentId} or {scheduledAt}.
Patched(task, field, val) == [task EXCEPT ![field] = val]

\* v1: the task with the patch applied
TaskPatchedV1(task, field, val) ==
  LET doneAt == IF field = "state" /\ val = "done" THEN nowIso
                ELSE IF field = "state" /\ task.state = "done" THEN NULL
                ELSE task.doneAt
  IN [Patched(task, field, val) EXCEPT !.doneAt = doneAt, !.updatedAt = nowIso]

\* v1: the fields written to the store
UpdatesV1(field, val) ==
  LET base == (field :> Raw(val)) @@ [updatedAt |-> serverTimestamp]
  IN IF field = "state" /\ val = "done" THEN base @@ [doneAt |-> serverTimestamp]
     ELSE IF field = "state" THEN base @@ [doneAt |-> Nul]
     ELSE base

updateTaskV1(id, field, val) ==
  LET h == nops + 1 IN
  /\ nops' = h
  /\ tasks' = [i \in 1..Len(tasks) |->
                 IF tasks[i].id # id THEN tasks[i]
                 ELSE TaskPatchedV1(tasks[i], field, val)]
  /\ todayMemo' = todayString
  /\ reqs' = reqs \cup {Req(h, "updTask", id, UpdatesV1(field, val))}
  /\ ev' = Ev("updateTask", h, id, field, val)
  /\ UNCHANGED <<version, projects, selectedProjectId, now, remoteTasks,
                 remoteProjects, handlers>>

\* the patch applied without a look at the state the task leaves
TaskPatchedV2Keep(task, field, val) ==
  [Patched(task, field, val) EXCEPT !.updatedAt = nowIso]

\* the patch applied with the order of the task reset
TaskPatchedV2Reordered(task, field, val) ==
  LET doneAt == IF field = "state" /\ task.state = "done" THEN NULL
                ELSE task.doneAt
  IN [Patched(task, field, val) EXCEPT !.doneAt = doneAt, !.updatedAt = nowIso,
                                       !.order = 0]

\* v2, the flow for a patch other than {state: 'done'}
TaskPatchedV2(task, field, val) ==
  LET doneAt == IF field = "state" /\ task.state = "done" THEN NULL
                ELSE task.doneAt
  IN [Patched(task, field, val) EXCEPT !.doneAt = doneAt, !.updatedAt = nowIso]

UpdatesV2(id, field, val) ==
  LET base == (field :> Raw(val)) @@ [updatedAt |-> serverTimestamp]
      found == {t \in Range(tasks) : t.id = id}
  IN IF field = "state" /\ \E t \in found : t.state = "done"
     THEN base @@ [doneAt |-> Nul]
     ELSE base

\* the cascade without its setTasks
TaskDoneSkipped(task) == task

\* v2, the flow for {state: 'done'}
TaskDone(task) ==
  [task EXCEPT !.state = "done", !.doneAt = nowIso, !.updatedAt = nowIso]

DoneUpdates ==
  [state |-> Str("done"), doneAt |-> serverTimestamp, updatedAt |-> serverTimestamp]

AllToUpdate(id, descendants) ==
  <<id>> \o [i \in 1..Len(descendants) |-> descendants[i].id]

\* the prompt of updateTask: the handler goes on unless the prompt was shown
\* and answered with Cancel
confirmDescendantsAlways(incompletedDescendants, confirmed) == TRUE

confirmDescendants(incompletedDescendants, confirmed) ==
  incompletedDescendants = <<>> \/ confirmed

\* confirmed: what window.confirm answers when it is asked
updateTaskV2(id, field, val, confirmed) ==
  LET h == nops + 1
      found == getDescendantTasks(id, tasks)
      descendants == found.list
      incompletedDescendants == SelectSeq(descendants, LAMBDA t : t.state # "done")
      allToUpdate == Range(AllToUpdate(id, descendants))
      e == Ev("updateTask", h, id, field, val)
  IN
  /\ nops' = h
  /\ IF field = "state" /\ val = "done"
     THEN IF found.overflow
          THEN \* the recursion does not return: the handler ends in a RangeError
               /\ ev' = Threw(e)
               /\ UNCHANGED <<tasks, todayMemo, reqs>>
          ELSE /\ ev' = (IF incompletedDescendants # <<>> THEN Asked(e, confirmed)
                         ELSE e)
               /\ IF ~confirmDescendants(incompletedDescendants, confirmed)
                  THEN UNCHANGED <<tasks, todayMemo, reqs>>
                  ELSE /\ tasks' = [i \in 1..Len(tasks) |->
                                      IF tasks[i].id \notin allToUpdate THEN tasks[i]
                                      ELSE TaskDone(tasks[i])]
                       /\ todayMemo' = todayString
                       /\ reqs' = reqs \cup
                            {Req(h, "updTask", x, DoneUpdates) : x \in allToUpdate}
     ELSE /\ tasks' = [i \in 1..Len(tasks) |->
                         IF tasks[i].id # id THEN tasks[i]
                         ELSE TaskPatchedV2(tasks[i], field, val)]
          /\ todayMemo' = todayString
          /\ reqs' = reqs \cup {Req(h, "updTask", id, UpdatesV2(id, field, val))}
          /\ ev' = Ev("updateTask", h, id, field, val)
  /\ UNCHANGED <<version, projects, selectedProjectId, now, remoteTasks,
                 remoteProjects, handlers>>

\* every task of the same project as candidate, the task itself included
potentialParentsAny(task) ==
  SelectSeq(tasks, LAMBDA t : t.projectId = task.projectId)

\* renderTaskRow: same project, not the task itself, not in the inbox
potentialParents(task) ==
  SelectSeq(tasks, LAMBDA t : t.projectId = task.projectId /\ t.id # task.id
                              /\ t.state # "inbox")

\* the dates the user picks in the Scheduled input
Dates == {DateOf(c) : c \in 1..MaxClock}

\* the patches the controls on display send for a task; a select fires onChange
\* only for an option other than the one it shows.  stateControls and inboxShown
\* are StateControls and InboxShown, computed once for the step.
Offered(task, field, val, stateControls, inboxShown) ==
  \/ /\ field = "state"
     /\ task.id \in stateControls
     /\ val \in Range(taskStates) /\ val # task.state
  \/ /\ field = "projectId"
     /\ task.id \in inboxShown
     /\ IF version = "v1"
        THEN val \in Ids(projects) \cup {NULL} /\ val # task.projectId
        ELSE /\ val \in Ids(projects)
             /\ val # (IF task.projectId = NULL THEN "p-default" ELSE task.projectId)
  \/ /\ field = "scheduledAt"
     /\ version = "v1"
     /\ task.id \in inboxShown
     /\ val \in Dates \cup {NULL} /\ val # task.scheduledAt
  \/ /\ field = "parentId"
     /\ version = "v2"
     /\ task.id \in inboxShown
     /\ val \in Ids(potentialParents(task)) \cup {NULL} /\ val # task.parentId

Vals == Range(TaskStatesV1) \cup Range(TaskStatesV2) \cup Ids(projects)
        \cup Ids(tasks) \cup Dates \cup {NULL}

EditTaskV1 ==
  /\ version = "v1"
  /\ nops < MaxOps
  /\ LET stateControls == StateControls
         inboxShown == InboxShown
     IN \E t \in Range(tasks), field \in {"state", "projectId", "scheduledAt"},
           val \in Vals :
          /\ Offered(t, field, val, stateControls, inboxShown)
          /\ updateTaskV1(t.id, field, val)

EditTaskV2 ==
  /\ version = "v2"
  /\ nops < MaxOps
  /\ LET stateControls == StateControls
         inboxShown == InboxShown
     IN \E t \in Range(tasks), field \in {"state", "projectId", "parentId"},
           val \in Vals :
          /\ Offered(t, field, val, stateControls, inboxShown)
          /\ \E confirmed \in BOOLEAN : updateTaskV2(t.id, field, val, confirmed)

\* updateDoc on a task resolves; a document that does not exist cannot be updated
UpdTaskOk(r) ==
  /\ r \in reqs /\ r.kind = "updTask"
  /\ r.id \in Ids(remoteTasks)
  /\ remoteTasks' = UpdateDoc(remoteTasks, r.id, Stamp(r.data, now))
  /\ ev' = Ev("updTaskOk", r.h, r.id, NULL, NULL)
  /\ LET waiting == {x \in handlers : x.h = r.h /\ x.kind = "projectStatus"
                                      /\ x.pc = "tasks"}
     IN IF waiting = {} THEN /\ reqs' = reqs \ {r}
                             /\ UNCHANGED handlers
        ELSE LET x == CHOOSE y \in waiting : TRUE IN
             IF x.left > 1
             THEN /\ reqs' = reqs \ {r}
                  /\ handlers' = (handlers \ {x}) \cup {[x EXCEPT !.left = x.left - 1]}
             ELSE \* Promise.all resolves: the handler goes on to the project
                  /\ reqs' = (reqs \ {r}) \cup
                       {Req(x.h, "updProject", x.id, [state |-> Str(x.newState)])}
                  /\ handlers' = (handlers \ {x}) \cup
                       {[x EXCEPT !.left = 0, !.pc = "project"]}
  /\ UNCHANGED <<version, tasks, projects, selectedProjectId, todayMemo, now,
                 remoteProjects, nops>>

\* ---- project status (v2) --------------------------------------------------------------------
\* projectMap.get(selectedProjectId)?.state || 'active'
ShownStatus ==
  LET found == {q \in Range(projects) : q.id = selectedProjectId}
  IN IF found = {} THEN "active" ELSE (CHOOSE q \in found : TRUE).state

\* the setTasks of the project cascade, for one task
ProjectTaskDoneRoots(task, selected) ==
  IF task.projectId # selected \/ task.state = "done" \/ task.parentId # NULL
  THEN task
  ELSE [task EXCEPT !.state = "done", !.doneAt = nowIso, !.updatedAt = nowIso]

\* the tasks of the project set to done without a doneAt
ProjectTaskDoneUnstamped(task, selected) ==
  IF task.projectId # selected \/ task.state = "done" THEN task
  ELSE [task EXCEPT !.state = "done", !.updatedAt = nowIso]

ProjectTaskDone(task, selected) ==
  IF task.projectId # selected \/ task.state = "done" THEN task
  ELSE [task EXCEPT !.state = "done", !.doneAt = nowIso, !.updatedAt = nowIso]

\* the prompt of the Status select
confirmProjectTasks(incompletedTasks, confirmed) == confirmed

\* the Status select of the project detail panel, up to its first await
projectStatusChange(newState, confirmed) ==
  LET h == nops + 1
      ownTasks == SelectSeq(tasks, LAMBDA t : t.projectId = selectedProjectId)
      incompletedTasks == SelectSeq(ownTasks, LAMBDA t : t.state # "done")
      closure == [Handler(h, "projectStatus", "tasks") EXCEPT
                    !.id = selectedProjectId, !.newState = newState,
                    !.projects = projects]
      e == Ev("projectStatus", h, selectedProjectId, "state", newState)
  IN
  /\ nops' = h
  /\ IF newState = "done" /\ incompletedTasks # <<>>
     THEN /\ ev' = Asked(e, confirmed)
          /\ IF ~confirmProjectTasks(incompletedTasks, confirmed)
             THEN UNCHANGED <<tasks, todayMemo, reqs, handlers>>
             ELSE /\ tasks' = [i \in 1..Len(tasks) |->
                                 ProjectTaskDone(tasks[i], selectedProjectId)]
                  /\ todayMemo' = todayString
                  /\ reqs' = reqs \cup
                       {Req(h, "updTask", t.id, DoneUpdates) :
                          t \in Range(incompletedTasks)}
                  /\ handlers' = handlers \cup
                       {[closure EXCEPT !.left = Len(incompletedTasks),
                                        !.confirmed = TRUE]}
     ELSE /\ reqs' = reqs \cup
               {Req(h, "updProject", selectedProjectId, [state |-> Str(newState)])}
          /\ handlers' = handlers \cup {[closure EXCEPT !.pc = "project"]}
          /\ ev' = e
          /\ UNCHANGED <<tasks, todayMemo>>
  /\ UNCHANGED <<version, projects, selectedProjectId, now, remoteTasks,
                 remoteProjects>>

\* the select is rendered for a selected project other than 'p-default'
ProjectStatus ==
  /\ version = "v2"
  /\ nops < MaxOps
  /\ selectedProjectId # NULL
  /\ selectedProjectId # "p-default"
  /\ \E newState \in {"active", "done"}, confirmed \in BOOLEAN :
       /\ newState # ShownStatus
       /\ projectStatusChange(newState, confirmed)

\* updateDoc on the project resolves: the rest of the Status handler, which
\* maps the projects it closed over
UpdProjectOk(r) ==
  /\ r \in reqs /\ r.kind = "updProject"
  /\ r.id \in Ids(remoteProjects)
  /\ reqs' = reqs \ {r}
  /\ remoteProjects' = UpdateDoc(remoteProjects, r.id, Stamp(r.data, now))
  /\ LET x == CHOOSE y \in handlers : y.h = r.h IN
       /\ projects' = [i \in 1..Len(x.projects) |->
                         IF x.projects[i].id = x.id
                         THEN [x.projects[i] EXCEPT !.state = x.newState]
                         ELSE x.projects[i]]
       /\ selectedProjectId' = AutoSelect(selectedProjectId, projects')
  /\ handlers' = handlers \ HandlerOf(r.h)
  /\ ev' = Ev("updProjectOk", r.h, r.id, "state", r.data.state.v)
  /\ UNCHANGED <<version, tasks, todayMemo, now, remoteTasks, nops>>

\* ---- new project (v2) ------------------------------------------------------------------------
ProjectNames == {<<" ">>, <<"G">>}

MaxProjectOrder(projs) == MaxOf({0} \cup {q.order : q \in Range(projs)})

\* the Add button (or Enter) of the new-project form, up to its first await
newProject(newProjectName) ==
  LET h == nops + 1 IN
  /\ version = "v2"
  /\ nops < MaxOps
  /\ nops' = h
  /\ ev' = [Ev("newProject", h, NULL, NULL, NULL) EXCEPT !.text = newProjectName]
  /\ IF Trim(newProjectName) = <<>>
     THEN UNCHANGED <<reqs, handlers>>
     ELSE /\ reqs' = reqs \cup
               {Req(h, "addProject", NewId(h),
                    [name |-> Str(Trim(newProjectName)), state |-> Str("active"),
                     order |-> Num(MaxProjectOrder(projects) + 10),
                     createdAt |-> serverTimestamp])}
          /\ handlers' = handlers \cup {Handler(h, "newProject", "addDoc")}
  /\ UNCHANGED <<version, tasks, projects, selectedProjectId, todayMemo, now,
                 remoteTasks, remoteProjects>>

\* addDoc on the project resolves: the handler fetches the projects again
AddProjectOk(r) ==
  /\ r \in reqs /\ r.kind = "addProject"
  /\ remoteProjects' =
       Append(remoteProjects, [id |-> r.id, data |-> Stamp(r.data, now)])
  /\ reqs' = (reqs \ {r}) \cup {Req(r.h, "getProjects", NULL, NoData)}
  /\ handlers' = {IF x.h = r.h THEN [x EXCEPT !.pc = "getDocs"] ELSE x :
                    x \in handlers}
  /\ ev' = Ev("addProjectOk", r.h, r.id, NULL, NULL)
  /\ UNCHANGED <<version, tasks, projects, selectedProjectId, todayMemo, now,
                 remoteTasks, nops>>

\* ---- the system -----------------------------------------------------------------------------------
Next ==
  \/ Tick
  \/ \E p \in Ids(projects) : SelectProject(p)
  \/ \E r \in reqs : RemoteFail(r)
  \/ \E r \in reqs : GetTasksOk(r)
  \/ \E r \in reqs : GetProjectsOk(r)
  \/ \E quickText \in QuickTexts : addQuickTask(quickText)
  \/ \E r \in reqs : AddTaskOk(r)
  \/ EditTaskV1
  \/ EditTaskV2
  \/ \E r \in reqs : UpdTaskOk(r)
  \/ ProjectStatus
  \/ \E r \in reqs : UpdProjectOk(r)
  \/ \E newProjectName \in ProjectNames : newProject(newProjectName)
  \/ \E r \in reqs : AddProjectOk(r)

Spec == Init /\ [][Next]_vars

\* ---- the mappers on their own ----------------------------------------------------------------------
\* A second system: the store holds one raw record, drawn from the shapes a
\* stored document can have, and the only step maps it.
Absent == [t |-> "absent"]

\* the record without its absent fields
Present(rec) == [f \in {g \in DOMAIN rec : rec[g] # Absent} |-> rec[f]]

\* null, the empty string, a string, the number 0, a number, a timestamp, a map,
\* a map with a key 'toDate'
TemporalRaws ==
  {Absent, Nul, Str(""), Str(IsoOf(1)), Num(0), Num(3), Ts(2), MapVal(FALSE),
   MapVal(TRUE)}

RawTaskRecords ==
  {Present([text |-> tx, projectId |-> pr, state |-> st, order |-> o,
            createdAt |-> c, dueAt |-> du, doneAt |-> dn]) :
     tx \in {Absent, Str(SomeText)}, pr \in {Absent, Str("pa")},
     st \in {Absent, Nul, Str("done")}, o \in {Absent, Num(7), Str("7")},
     c \in {Absent, Ts(1)}, du \in TemporalRaws,
     dn \in {Absent, Str(IsoOf(1)), MapVal(TRUE)}}

RawProjectRecords ==
  {Present([name |-> n, state |-> st, order |-> o, createdAt |-> c]) :
     n \in {Absent, Nul, Str(<<"A">>)}, st \in {Absent, Str("done")},
     o \in {Absent, Num(7), Str("7")}, c \in TemporalRaws}

MapperInit ==
  /\ version \in {"v1", "v2"}
  /\ now \in 1..MaxClock
  /\ \/ /\ remoteTasks \in {<<[id |-> "r", data |-> d]>> : d \in RawTaskRecords}
        /\ remoteProjects = <<>>
     \/ /\ remoteProjects \in {<<[id |-> "r", data |-> d]>> : d \in RawProjectRecords}
        /\ remoteTasks = <<>>
  /\ tasks = <<>>
  /\ projects = <<>>
  /\ selectedProjectId = NULL
  /\ todayMemo = DateOf(now)
  /\ reqs = {}
  /\ handlers = {}
  /\ nops = 0
  /\ ev = NoEv

\* mapTaskDoc(docSnap.id, docSnap.data())
MapTask ==
  /\ remoteTasks # <<>> /\ ev = NoEv
  /\ LET m == mapTaskDoc(remoteTasks[1].id, remoteTasks[1].data, now)
         e == Ev("mapTaskDoc", 0, remoteTasks[1].id, NULL, NULL)
     IN IF Raises(m) THEN ev' = Threw(e) /\ tasks' = tasks
        ELSE ev' = e /\ tasks' = <<m>>
  /\ UNCHANGED <<version, projects, selectedProjectId, todayMemo, now,
                 remoteTasks, remoteProjects, reqs, handlers, nops>>

\* mapProjectDoc(docSnap.id, docSnap.data())
MapProject ==
  /\ remoteProjects # <<>> /\ ev = NoEv
  /\ LET m == mapProjectDoc(remoteProjects[1].id, remoteProjects[1].data, now)
         e == Ev("mapProjectDoc", 0, remoteProjects[1].id, NULL, NULL)
     IN IF Raises(m) THEN ev' = Threw(e) /\ projects' = projects
        ELSE ev' = e /\ projects' = <<m>>
  /\ UNCHANGED <<version, tasks, selectedProjectId, todayMemo, now,
                 remoteTasks, remoteProjects, reqs, handlers, nops>>

MapperNext == MapTask \/ MapProject

MapperSpec == MapperInit /\ [][MapperNext]_vars

\* ---- properties ------------------------------------------------------------------------------------
\* the ids reached from the set S by following parentId downwards any number of
\* times (the least set that holds S and every child of a member)
RECURSIVE DownFrom(_, _)
DownFrom(list, S) ==
  LET more == S \cup {t.id : t \in {u \in Range(list) : u.parentId \in S}}
  IN IF more = S THEN S ELSE DownFrom(list, more)

\* the transitive descendants of the task id
DescendantIds(list, id) ==
  DownFrom(list, {t.id : t \in {u \in Range(list) : u.parentId = id}})

\* the last step was updateTask(id, {state: 'done'})
DoneStep == ev'.op = "updateTask" /\ ev'.field = "state" /\ ev'.val = "done"

\* C1: when updateTask(T, {state: 'done'}) runs for a task T with a descendant
\* that is not done and the prompt is accepted, T and every transitive
\* descendant of T are done with a doneAt in the cache afterwards, and every
\* other task is as it was.
C1_CascadeDone ==
  [][(/\ DoneStep
      /\ ev'.confirmed
      /\ \E t \in Range(tasks) : t.id \in DescendantIds(tasks, ev'.id)
                                 /\ t.state # "done")
     => /\ Len(tasks') = Len(tasks)
        /\ \A i \in 1..Len(tasks) :
             IF tasks[i].id \in DescendantIds(tasks, ev'.id) \cup {ev'.id}
             THEN /\ tasks'[i].id = tasks[i].id
                  /\ tasks'[i].state = "done"
                  /\ tasks'[i].doneAt # NULL
             ELSE tasks'[i] = tasks[i]]_vars

\* a1 was completed with the prompt accepted, and its grandchild a3 is done
C1_Witness ==
  /\ ev.op = "updateTask" /\ ev.id = "a1" /\ ev.val = "done" /\ ev.confirmed
  /\ \E t \in Range(tasks) : t.id = "a3" /\ t.parentId = "a2" /\ t.state = "done"
                             /\ t.doneAt # NULL
  /\ \E t \in Range(tasks) : t.id = "a2" /\ t.parentId = "a1" /\ t.state = "done"
  /\ \E t \in Range(tasks) : t.id = "a4" /\ t.doneAt = IsoOf(1)

\* C2: when the prompt is declined, for a task completion as for a project
\* completion, the step changes neither the cached tasks, nor the cached
\* projects, nor the store, and dispatches no remote call.
C2_DeclinedNoMutation ==
  [][(/\ ev'.op \in {"updateTask", "projectStatus"}
      /\ ev'.asked
      /\ ~ev'.confirmed)
     => UNCHANGED <<tasks, projects, remoteTasks, remoteProjects, reqs, handlers>>]_vars

\* the completion of a1 was declined while its descendants are open
C2_Witness ==
  /\ ev.op = "updateTask" /\ ev.id = "a1" /\ ev.val = "done"
  /\ ev.asked /\ ~ev.confirmed
  /\ \E t \in Range(tasks) : t.parentId = "a1" /\ t.state # "done"
  /\ \E t \in Range(tasks) : t.id = "a1" /\ t.state # "done"

\* C3: an updateTask that takes a task out of done clears its doneAt, and an
\* updateTask that takes a task into done sets its doneAt to the current time,
\* in both variants.
C3_DoneAtFollowsState ==
  [][ev'.op = "updateTask"
     => /\ Len(tasks') = Len(tasks)
        /\ \A i \in 1..Len(tasks) :
             /\ (tasks[i].state = "done" /\ tasks'[i].state # "done")
                  => tasks'[i].doneAt = NULL
             /\ (tasks[i].state # "done" /\ tasks'[i].state = "done")
                  => tasks'[i].doneAt = IsoOf(now)]_vars

\* the finished task a4 was moved out of done at a later time than it was
\* finished at
C3_Witness ==
  /\ ev.op = "updateTask" /\ ev.id = "a4" /\ ev.field = "state"
  /\ \E t \in Range(tasks) : t.id = "a4" /\ t.state # "done" /\ t.doneAt = NULL
                             /\ t.updatedAt # IsoOf(1)

\* the write of a project's status has succeeded in this step: the store holds
\* the new state, and so does the cache if the cached projects held the project
\* when the handler was invoked
ProjectApplied ==
  /\ \E d \in Range(remoteProjects') : d.id = ev'.id /\ d.data.state = Str(ev'.val)
  /\ \A q \in Range(projects') : q.id = ev'.id => q.state = ev'.val
  /\ \A x \in handlers :
       (x.h = ev'.h /\ ev'.id \in Ids(x.projects)) => ev'.id \in Ids(projects')

Reflected(list, r, clock) ==
  \E t \in Range(list) :
    /\ t.id = r.id
    /\ \A f \in DOMAIN r.data :
         IF f = "updatedAt" THEN t.updatedAt = IsoOf(clock)
         ELSE IF r.data[f] = serverTimestamp THEN t[f] = IsoOf(clock)
         ELSE Raw(t[f]) = r.data[f]

Exactly(view, list, Keep(_)) ==
  /\ Range(view) = {t \in Range(list) : Keep(t)}
  /\ Len(view) = Cardinality({i \in 1..Len(list) : Keep(list[i])})

Ascending(view) ==
  \A i, j \in 1..Len(view) : i < j => view[i].order <= view[j].order

\* C6: the Inbox view holds exactly the cached tasks whose state is inbox, in
\* ascending order.
C6_InboxView ==
  /\ Exactly(inboxTasks, tasks, LAMBDA t : t.state = "inbox")
  /\ \A t \in Range(inboxTasks) : t.state = "inbox"
  /\ Ascending(inboxTasks)

\* two inbox tasks of different order next to tasks in other states, and the
\* cache does not list the inbox tasks in ascending order
C6_Witness ==
  /\ Len(inboxTasks) >= 2
  /\ Len(tasks) > Len(inboxTasks)
  /\ inboxTasks[1].order < inboxTasks[Len(inboxTasks)].order
  /\ ~Ascending(SelectSeq(tasks, LAMBDA t : t.state = "inbox"))

\* C7 as stated: the Today view holds exactly the tasks in state today (v2), or
\* exactly the tasks scheduled on the current calendar date that are not done
\* (v1), in ascending order.
C7_TodayView ==
  /\ IF version = "v1"
     THEN Exactly(todayTasks, tasks,
                  LAMBDA t : t.scheduledAt = todayString /\ t.state # "done")
     ELSE Exactly(todayTasks, tasks, LAMBDA t : t.state = "today")
  /\ Ascending(todayTasks)

\* C8: projectTasks holds exactly the cached tasks of the selected project, in
\* ascending order, and nothing when no project is selected.
C8_ProjectTasks ==
  /\ selectedProjectId = NULL => projectTasks = <<>>
  /\ selectedProjectId # NULL
     => Exactly(projectTasks, tasks, LAMBDA t : t.projectId = selectedProjectId)
  /\ Ascending(projectTasks)

\* a project is selected that owns several tasks, while the cache also holds a
\* task without a project and a task of another project
C8_Witness ==
  /\ selectedProjectId # NULL
  /\ Len(projectTasks) >= 2
  /\ \E t \in Range(tasks) : t.projectId = NULL
  /\ \E t \in Range(tasks) : t.projectId \notin {NULL, selectedProjectId}

\* the position of a task in the cache
IndexIn(list, id) == CHOOSE i \in 1..Len(list) : list[i].id = id

\* ascending by order, and tasks of equal order in the order of the list
StableAscending(view, list) ==
  \A i, j \in 1..Len(view) :
    i < j => \/ view[i].order < view[j].order
             \/ /\ view[i].order = view[j].order
                /\ IndexIn(list, view[i].id) < IndexIn(list, view[j].id)

\* C9: each derived view is in ascending order, and tasks of equal order stand
\* in the view as they stand in the cache.
C9_StableSort ==
  /\ StableAscending(inboxTasks, tasks)
  /\ StableAscending(todayTasks, tasks)
  /\ \A p \in Ids(projects) \cup {selectedProjectId} :
       StableAscending(projectTasksOf(tasks, p), tasks)

\* the tasks of some project stand in the cache with the orders 20, 10, 10 and
\* in its view as the first 10, the second 10, the 20
C9_Witness ==
  \E p \in Ids(projects) :
    LET src == SelectSeq(tasks, LAMBDA t : t.projectId = p)
    IN /\ Len(src) = 3
       /\ <<src[1].order, src[2].order, src[3].order>> = <<20, 10, 10>>
       /\ projectTasksOf(tasks, p) = <<src[2], src[3], src[1]>>

\* o is 10 more than the largest order of a root task of the list, or 10 when
\* the list has no root task
IsNextOrder(list, o) ==
  LET roots == {t \in Range(list) : t.parentId = NULL}
  IN IF roots = {} THEN o = 10
     ELSE \E t \in roots : o = t.order + 10 /\ \A u \in roots : u.order <= t.order

Blank(text) == \A i \in 1..Len(text) : text[i] = " "

\* the task is what quick-add makes, and the Inbox view of the list shows it
IsQuickTask(t, list) ==
  /\ t.state = "inbox" /\ t.parentId = NULL /\ t.projectId = "p-default"
  /\ t.doneAt = NULL
  /\ t \in Range(inboxTasksOf(list))

MappedDefaults ==
  /\ \A i \in 1..Len(tasks) :
       LET d == remoteTasks[i].data
           t == tasks[i]
       IN /\ "order" \notin DOMAIN d => t.order = 0
          /\ "state" \notin DOMAIN d => t.state = "inbox"
          /\ \A f \in {"dueAt", "scheduledAt", "doneAt"} :
               /\ t[f] # Raised
               /\ (f \notin DOMAIN d \/ d[f] \in {Nul, Num(0), Num(3), Str("")})
                    => t[f] = NULL
               /\ (f \in DOMAIN d /\ d[f].t = "string" /\ d[f].v # "")
                    => t[f] = d[f].v
               /\ (f \in DOMAIN d /\ d[f].t = "timestamp") => t[f] = IsoOf(d[f].v)
  /\ \A i \in 1..Len(projects) :
       LET d == remoteProjects[i].data
           q == projects[i]
       IN /\ "order" \notin DOMAIN d => q.order = 0
          /\ "name" \notin DOMAIN d => q.name = Untitled
          /\ q.createdAt # Raised

\* C11 as stated: no call of a mapper ends in an exception, whatever the raw
\* record; a missing order maps to 0, a missing task state to inbox, a missing
\* project name to "Untitled", and each optional temporal field to a string or
\* to null.
C11_MapperTotal == ~ev.threw /\ MappedDefaults

\* ---- C12: the initial load ----------------------------------------------------------------------------
\* the initial loadData, while it is suspended on Promise.all
LoadPending == \E x \in handlers : x.h = 0 /\ x.kind = "loadData"

\* the step in which the second of the two fetches resolves
LoadCompletes ==
  /\ LoadPending
  /\ ev'.h = 0 /\ ev'.op \in {"getTasksOk", "getProjectsOk"}
  /\ ~LoadPending'

\* the two snapshots loadData holds when Promise.all resolves
LoadedProjectDocs ==
  LET x == CHOOSE y \in handlers : y.h = 0
  IN IF x.gotProjects THEN x.snapProjects ELSE OrderedQuery(remoteProjects)

LoadedTaskDocs ==
  LET x == CHOOSE y \in handlers : y.h = 0
  IN IF x.gotTasks THEN x.snapTasks ELSE TaskQuery(remoteTasks)

\* C12 as stated: the first of the two fetches to resolve puts nothing into
\* the cache; when the second resolves, the cache holds the fetched projects
\* and tasks, or, if either snapshot is empty, the seed projects and the seed
\* tasks instead of what was fetched.
C12_InitialLoad ==
  [][/\ (LoadPending /\ LoadPending' /\ ev'.h = 0)
          => (tasks' = tasks /\ projects' = projects)
     /\ LoadCompletes
          => IF LoadedProjectDocs = <<>> \/ LoadedTaskDocs = <<>>
             THEN projects' = seedProjects /\ tasks' = seedTasks
             ELSE /\ projects' = MappedProjects(LoadedProjectDocs)
                  /\ tasks' = MappedTasks(LoadedTaskDocs)]_vars

\* the first half of C12 and the fallback of each collection on its own
C12_PerCollection ==
  [][/\ (LoadPending /\ LoadPending' /\ ev'.h = 0)
          => (tasks' = tasks /\ projects' = projects)
     /\ (LoadCompletes /\ ~ev'.threw)
          => /\ projects' = (IF LoadedProjectDocs = <<>> THEN seedProjects
                             ELSE MappedProjects(LoadedProjectDocs))
             /\ tasks' = (IF LoadedTaskDocs = <<>> THEN seedTasks
                          ELSE MappedTasks(LoadedTaskDocs))]_vars

\* ---- C13: tasks are never removed -----------------------------------------------------------------------
\* C13 as stated: a task id that is in the cache is in the cache after every
\* step, whichever handler or resolution the step is.
C13_NeverDeleted == [][Ids(tasks) \subseteq Ids(tasks')]_vars

\* every step other than the completion of the initial load keeps the ids
C13_KeptButByLoad == [][~LoadCompletes => Ids(tasks) \subseteq Ids(tasks')]_vars

\* ---- C14: overlapping handlers ----------------------------------------------------------------------------
\* the task at index i is one the last step's own mutation is aimed at
OwnTarget(i) ==
  \/ /\ ev'.op = "updateTask"
     /\ \/ tasks[i].id = ev'.id
        \/ /\ ev'.field = "state" /\ ev'.val = "done"
           /\ tasks[i].id \in DescendantIds(tasks, ev'.id)
  \/ /\ ev'.op = "projectStatus"
     /\ tasks[i].projectId = ev'.id

\* a setTasks of a handler starts from the list the cache holds: it keeps every
\* task that it is not aimed at as the earlier handlers left it
C14_TasksKept ==
  [][ev'.op \in {"updateTask", "projectStatus", "addTaskOk"}
       => /\ Len(tasks') >= Len(tasks)
          /\ \A i \in 1..Len(tasks) :
               /\ tasks'[i].id = tasks[i].id
               /\ OwnTarget(i) \/ tasks'[i] = tasks[i]]_vars

\* the ids of the projects created by the new-project form
FormIds == {NewId(h) : h \in 1..MaxOps}

\* C14 as stated: when the last of the overlapping handlers completes, each
\* collection holds what the other handlers put into it: the setTasks of a
\* handler keeps the tasks it is not aimed at, and the setProjects that ends
\* the Status handler keeps every project that the new-project form put into
\* the cache.
C14_NoOverwrite ==
  [][/\ ev'.op \in {"updateTask", "projectStatus", "addTaskOk"}
          => /\ Len(tasks') >= Len(tasks)
             /\ \A i \in 1..Len(tasks) :
                  /\ tasks'[i].id = tasks[i].id
                  /\ OwnTarget(i) \/ tasks'[i] = tasks[i]
     /\ (ev'.op = "updProjectOk" /\ handlers' = {} /\ reqs' = {})
          => \A q \in Range(projects) :
               (q.id \in FormIds /\ q.id # ev'.id) => q \in Range(projects')]_vars

\* ---- C15: a failed remote write ----------------------------------------------------------------------------
\* the last step was the rejection of a write to a task or to a project
WriteFailed == ev'.op = "remoteFail" /\ ev'.field \in {"updTask", "updProject"}

\* C15: when a remote write of a task update or of a cascade fails, the cache
\* is left as it is (the change stays, nothing is undone), the write is not
\* sent again, and the operation sends no write afterwards: its handler is
\* gone, and a write is only ever sent by the handler the step starts or by a
\* handler that was suspended.
C15_NoRetryNoRollback ==
  [][/\ WriteFailed
          => /\ tasks' = tasks /\ projects' = projects
             /\ reqs' \subseteq reqs /\ reqs' # reqs
             /\ \A x \in handlers' : x.h # ev'.h
     /\ \A r \in reqs' \ reqs :
          \/ r.h = nops' /\ nops' = nops + 1
          \/ \E x \in handlers : x.h = r.h]_vars

\* the write of a completed seed task was rejected: the task is done in the
\* cache and the store has no record of it
C15_Witness ==
  /\ ev.op = "remoteFail" /\ ev.field = "updTask"
  /\ \E t \in Range(tasks) : t.id = ev.id /\ t.state = "done" /\ t.doneAt # NULL
  /\ ev.id \notin Ids(remoteTasks)

\* a write of the project cascade was rejected while the others of the cascade
\* were still in flight
C15_CascadeWitness ==
  /\ ev.op = "remoteFail" /\ ev.field = "updTask"
  /\ \E r \in reqs : r.h = ev.h /\ r.kind = "updTask"
  /\ \A x \in handlers : x.h # ev.h
  /\ \A t \in Range(tasks) : t.projectId = selectedProjectId => t.state = "done"

\* ---- C16: parent references -------------------------------------------------------------------------------
\* C16: every task of the cache with a parentId names a task that is in the
\* cache and is not the task itself.
C16_ParentExists ==
  \A t \in Range(tasks) :
    t.parentId # NULL => (t.parentId # t.id /\ t.parentId \in Ids(tasks))

\* the Parent Task select has just given a task a parent
C16_Witness ==
  /\ ev.op = "updateTask" /\ ev.field = "parentId" /\ ev.val # NULL
  /\ \E t \in Range(tasks) : t.id = ev.id /\ t.parentId = ev.val
  /\ \E t \in Range(tasks) : t.id = ev.val /\ t.id # ev.id

\* ---- C17: the levels of the project tree ------------------------------------------------------------------
\* the tasks of a group, in the order of the group
GroupTasks(group) == [i \in 1..Len(group) |-> group[i].task]

\* one level: the children of parentId among the tasks of the list
LevelOk(forest, list, parentId) ==
  LET active == GroupTasks(forest.active)
      done == GroupTasks(forest.done)
      rows == LevelRows(forest)
      children == {t \in Range(list) : t.parentId = parentId}
  IN /\ \A t \in Range(active) : t.state # "done"
     /\ \A t \in Range(done) : t.state = "done"
     /\ Range(active) \cap Range(done) = {}
     /\ Range(active) \cup Range(done) = children
     /\ Len(rows) = Cardinality(children)
     /\ \A i, j \in 1..Len(rows) :
          i < j => ~(rows[i].state = "done" /\ rows[j].state # "done")
     /\ \A i, j \in 1..Len(active) : i < j => active[i].order <= active[j].order
     /\ \A i, j \in 1..Len(done) : i < j => done[i].order <= done[j].order

RECURSIVE LevelsOk(_, _, _)
LevelsOk(forest, list, parentId) ==
  /\ LevelOk(forest, list, parentId)
  /\ \A n \in Range(forest.active) \cup Range(forest.done) :
       LevelsOk(n.children, list, n.task.id)

\* C17: at every level of the tree renderProjectTree(null) derives, the
\* active group holds the children that are not done and the completed group
\* those that are done, the two share no task and hold every child of the
\* level once, the active rows come before the completed rows, and each group
\* is in ascending order.
C17_TreePartition ==
  version = "v2" => LevelsOk(renderProjectTreeV2(projectTasks, NULL), projectTasks, NULL)

\* a tree whose top level has both groups, below a level with both groups
\* or with two rows
C17_Witness ==
  /\ version = "v2"
  /\ ev.op = "updateTask"
  /\ LET forest == renderProjectTreeV2(projectTasks, NULL)
     IN /\ forest.active # <<>> /\ forest.done # <<>>
        /\ \E n \in Range(forest.active) \cup Range(forest.done) :
             Len(LevelRows(n.children)) >= 1

\* ---- C19: the recursions over parentId ---------------------------------------------------------------------
\* getDescendantTasks(id, tasks) returns, and returns each transitive
\* descendant of id once
DescendantsOnce(id) ==
  LET found == getDescendantTasks(id, tasks)
  IN /\ ~found.overflow
     /\ Ids(found.list) = DescendantIds(tasks, id)
     /\ Len(found.list) = Cardinality(DescendantIds(tasks, id))

\* no task of the cache is its own transitive descendant
NoParentCycle == \A t \in Range(tasks) : t.id \notin DescendantIds(tasks, t.id)

\* C19 as stated: in every state the user operations lead to, the recursion
\* of getDescendantTasks ends for every task of the cache and returns each
\* transitive descendant once.  (renderProjectTree(null) and renderTodayTree
\* (project, null) start from the tasks without a parent and end whenever
\* getDescendantTasks does.)
C19_RecursionsTerminate ==
  version = "v2" => \A t \in Range(tasks) : DescendantsOnce(t.id)

\* where the parent references have no cycle, the recursion ends with each
\* descendant once
C19_TerminatesWithoutCycle ==
  (version = "v2" /\ NoParentCycle) => \A t \in Range(tasks) : DescendantsOnce(t.id)

\* ---- C20: the cache and the store --------------------------------------------------------------------------
\* no remote call is in flight, no handler is suspended, and no write was
\* rejected
Settled == reqs = {} /\ handlers = {} /\ ~ev.failed

\* the store has a record of the task that reads back with its state, project
\* and parent, and with a doneAt exactly when the task has one
Mirrored(t) ==
  \E d \in Range(remoteTasks) :
    /\ d.id = t.id
    /\ LET m == mapTaskDoc(d.id, d.data, now)
       IN /\ m.state = t.state
          /\ m.projectId = t.projectId
          /\ m.parentId = t.parentId
          /\ (m.doneAt = NULL) <=> (t.doneAt = NULL)

\* C20 as stated: once every remote write that was sent has succeeded and no
\* handler is in flight, every task of the cache has a record in the store
\* with its state, projectId and parentId, and with doneAt null exactly when
\* the task's doneAt is null.
C20_EventuallyConsistent == Settled => \A t \in Range(tasks) : Mirrored(t)

\* the same for the tasks that have a record in the store
C20_StoredAgree ==
  Settled => \A t \in Range(tasks) : t.id \in Ids(remoteTasks) => Mirrored(t)

\* ---- C21: the frame of an update that does not complete ---------------------------------------------------
\* the fields of a task record
TaskFields ==
  {"id", "text", "projectId", "parentId", "state", "createdAt", "updatedAt",
   "dueAt", "scheduledAt", "doneAt", "order"}

\* the last step was updateTask(id, patch) with a patch other than {state: 'done'}
PlainUpdateStep ==
  ev'.op = "updateTask" /\ ~(ev'.field = "state" /\ ev'.val = "done")

\* C21: an updateTask whose patch does not set the state to done leaves every
\* task but the one with the given id as it was, its descendants included;
\* on that task the patched field, updatedAt and, when the task leaves done,
\* doneAt are the only fields that change.
C21_PlainUpdateFrame ==
  [][PlainUpdateStep
       => /\ Len(tasks') = Len(tasks)
          /\ \A i \in 1..Len(tasks) :
               IF tasks[i].id # ev'.id THEN tasks'[i] = tasks[i]
               ELSE /\ \A f \in TaskFields \ {ev'.field, "updatedAt", "doneAt"} :
                         tasks'[i][f] = tasks[i][f]
                    /\ tasks'[i].doneAt # tasks[i].doneAt
                         => (ev'.field = "state" /\ tasks[i].state = "done")]_vars

\* a completed task with a completed child has just left done: its doneAt is
\* cleared and the child is still done
C21_Witness ==
  /\ ev.op = "updateTask" /\ ev.field = "state" /\ ev.val # "done"
  /\ \E t \in Range(tasks) :
       /\ t.id = ev.id /\ t.state = ev.val /\ t.doneAt = NULL
       /\ \E u \in Range(tasks) : u.parentId = t.id /\ u.state = "done"
                                  /\ u.doneAt # NULL

\* ---- C22: parent cycles ------------------------------------------------------------------------------------
\* the last step was a Parent Task edit or a Project edit
ParentOrProjectEdit ==
  ev'.op = "updateTask" /\ ev'.field \in {"parentId", "projectId"}

\* C22 as stated: a Parent Task edit or a Project edit that the views offer,
\* made on a task list without a parent cycle, leaves the list without one.
C22_StaysAcyclic ==
  [][(NoParentCycle /\ ParentOrProjectEdit) => NoParentCycle']_vars

\* every step other than a Parent Task edit keeps the list without a cycle
C22_OnlyParentEdits ==
  [][(NoParentCycle /\ ~(ev'.op = "updateTask" /\ ev'.field = "parentId"))
       => NoParentCycle']_vars

\* ---- C23: doneAt and state --------------------------------------------------------------------------------
\* every task of the cache has a doneAt exactly when its state is done
DoneAtIffDone == \A t \in Range(tasks) : (t.doneAt # NULL) <=> (t.state = "done")

\* the last step was an updateTask (with its cascade), the task cascade of a
\* project completion, or the insertion of a quick-added task
TaskMutation == ev'.op \in {"updateTask", "projectStatus", "addTaskOk"}

\* C23: an updateTask, a task-completion cascade, a project-completion
\* cascade or a quick-add, made on a cache in which every task has a doneAt
\* exactly when it is done, leaves the cache so.
C23_DoneAtIffDone ==
  [][(DoneAtIffDone /\ TaskMutation) => DoneAtIffDone']_vars

\* a project completion has just completed the open tasks of the project
C23_Witness ==
  /\ ev.op = "projectStatus" /\ ev.asked /\ ev.confirmed
  /\ \E t \in Range(tasks) : t.projectId = ev.id /\ t.state = "done"
                             /\ t.doneAt = nowIso
  /\ \E t \in Range(tasks) : t.state # "done" /\ t.doneAt = NULL
  /\ DoneAtIffDone

\* ---- C24: the project tree shows the tasks of the project --------------------------------------------------
\* the rows of the project detail panel: renderProjectTree(null)
ProjectRows ==
  IF version = "v1" THEN ForestRows(renderProjectTreeV1(projectTasks, NULL))
  ELSE ForestRowsV2(renderProjectTreeV2(projectTasks, NULL))

\* how many rows show the id
Times(rows, id) == Cardinality({i \in 1..Len(rows) : rows[i] = id})

\* C24 as stated: every task of the selected project, that is every task the
\* panel counts, is shown by exactly one row of renderProjectTree(null).
C24_ProjectTreeComplete ==
  \A t \in Range(projectTasks) : Times(ProjectRows, t.id) = 1

\* the same where the parent references have no cycle
C24_CompleteWithoutCycle == NoParentCycle => C24_ProjectTreeComplete

\* no task is shown twice, and every row is a task of the selected project
C24_RowsOnce ==
  \A i \in 1..Len(ProjectRows) :
    /\ Times(ProjectRows, ProjectRows[i]) = 1
    /\ ProjectRows[i] \in Ids(projectTasks)

\* the parent of a task of the selected project was moved to another project
C24_ParentMoved ==
  \E t \in Range(projectTasks), u \in Range(tasks) :
    /\ t.parentId = u.id /\ u.projectId # t.projectId
    /\ NoParentCycle
    /\ Times(ProjectRows, t.id) = 0

\* ---- C25: the Today view shows the today tasks -------------------------------------------------------------
\* the task has one row in the Today panel, in the group of its project
ShownInOwnGroup(t, groups) ==
  /\ \E i \in 1..Len(groups) :
       groups[i].projectId = t.projectId /\ Times(groups[i].rows, t.id) = 1
  /\ \A i \in 1..Len(groups) :
       groups[i].projectId # t.projectId => Times(groups[i].rows, t.id) = 0

\* C25 as stated: every task the Today panel counts (state today) has exactly
\* one row, in the group of its project, whether or not it has a project and
\* whether or not its parent is a today task.
C25_TodayTreeComplete ==
  version = "v2" =>
    \A t \in Range(todayTasks) : ShownInOwnGroup(t, TodayGroups(todayTasks))

\* the same for the today tasks that have a project and either no parent or a
\* chain of today parents of the same project up to a task without a parent
RECURSIVE TodayRooted(_, _)
TodayRooted(t, fuel) ==
  /\ t.projectId # NULL
  /\ \/ t.parentId = NULL
     \/ /\ fuel > 0
        /\ \E u \in Range(todayTasks) :
             /\ u.id = t.parentId /\ u.projectId = t.projectId
             /\ TodayRooted(u, fuel - 1)

C25_RootedShown ==
  version = "v2" =>
    \A t \in Range(todayTasks) :
      TodayRooted(t, Len(tasks)) => ShownInOwnGroup(t, TodayGroups(todayTasks))

\* ---- C26: overlapping quick-adds ---------------------------------------------------------------------------
\* the task the last step appended to the cache
Inserted == tasks'[Len(tasks')]

\* C26 as stated: whenever a quick-added task is inserted into the cache,
\* its order is greater than the order of every task without a parent that
\* the cache holds, however the quick-adds overlap; so no two quick-added
\* tasks have the same order.
C26_QuickAddOrders ==
  [][ev'.op = "addTaskOk"
       => \A t \in Range(tasks) : t.parentId = NULL => Inserted.order > t.order]_vars

\* the order a quick-add computes is greater than the order of every task
\* without a parent in the cache at the time the handler starts
C26_OrderWhenStarted ==
  [][ev'.op = "addQuickTask"
       => \A x \in handlers' \ handlers :
            \A t \in Range(tasks) : t.parentId = NULL => x.order > t.order]_vars

\* two quick-added tasks of the cache have the same order
C26_SharedOrder ==
  \E i, j \in 1..Len(tasks) :
    /\ i < j /\ tasks[i].order = tasks[j].order
    /\ {tasks[i].id, tasks[j].id} \subseteq {NewId(h) : h \in 1..MaxOps}

====
